---------------------------- MODULE Spec2Model ----------------------------
(***************************************************************************)
(* Verification model of the pool-reserve reconstruction scripts:          *)
(*   script/pool_balance.py, script/pool_value.py  (liquidity sweep)       *)
(*   script/tick_bitmap.py                         (bitmap fetch pipeline) *)
(*   script/add_active_liquidity.py                ("__L" of each block)   *)
(*                                                                         *)
(* Numbers of Python's decimal module are modelled as decimal floating     *)
(* point values  m * 10^e  whose coefficient m has exactly Prec digits     *)
(* (or is 0).  Every arithmetic operation returns the exact result rounded *)
(* half-even to Prec digits, which is what decimal does under its default  *)
(* context rounding.  The source runs at 78 digits; the model runs the     *)
(* same arithmetic at Prec digits.                                         *)
(***************************************************************************)
EXTENDS Integers, Sequences, FiniteSets, TLC

VARIABLES
    \* ---- pool_balances_at_block (pool_balance.py / pool_value.py) ----
    tick_snapshot_dict,   \* the block's snapshot: key string -> liquidityNet (or the "__L" value)
    liquidity_gross,      \* the "liquidityGross" fields of the snapshot: tick key -> value
    args_changed,         \* the running call differs from the one before it in "__L",
                          \* liquidityGross or slot0_liquidity_int
    current_sqrtPX96_int, \* argument: current sqrt price, fixed point with QBits fraction bits
    slot0_liquidity_int,  \* argument: Pool.Slot0.liquidity
    pc,                   \* "idle" | "sweep" | "returned" | "raised"
    all_segment_boundaries, \* the sorted boundary list of the running call
    i,                    \* loop index of the sweep (0-based, as in the source)
    running_liquidity_decimal,
    total_amount0,
    total_amount1,
    result,               \* outcome of the last completed call, or NoResult
    prev_result           \* outcome of the call completed before that one, or NoResult

VARIABLES
    \* ---- main of tick_bitmap.py ----
    chain_bitmap,         \* storage at BLOCK: word -> the set bits of the tickBitmap word
    chain_ticks,          \* storage at BLOCK: tick -> <<liquidityNet, liquidityGross>>
    fpc,                  \* "gather_words" | "decode" | "gather_ticks" | "done" | "aborted"
    word_task,            \* fetch_bitmap_word(word): "pending" | "inflight" | "done" | "failed"
    bitmap_word_values,   \* the dict wordPos -> value, as its items in insertion order
    bitmap_file,          \* bitmap_snapshot.json: NoFile or the saved list
    initialized_ticks,
    tick_task,            \* fetch_tick_info(tick): "pending" | "inflight" | "done" | "failed"
    tick_reads,           \* tick -> the get_storage_at requests of its task that are in flight
    tick_data,            \* the dict tick -> data, as <<tick, liqNet, liqGross>> in insertion order
    snapshot_file         \* tick_snapshot.json: NoFile or the saved list

fetchVars == <<chain_bitmap, chain_ticks, fpc, word_task, bitmap_word_values, bitmap_file,
               initialized_ticks, tick_task, tick_reads, tick_data, snapshot_file>>

sweepVars == <<tick_snapshot_dict, liquidity_gross, args_changed,
               current_sqrtPX96_int, slot0_liquidity_int, pc,
               all_segment_boundaries, i, running_liquidity_decimal,
               total_amount0, total_amount1, result, prev_result>>

VARIABLES
    \* ---- slot addressing of tick_bitmap.py ----
    pool_state_base_slot, \* calculate_mapping_slot(POOL_ID_HEX, 6): a hex string
    tick_bitmap_mapping_base_slot, \* hex string, or <<>> before it is computed
    ticks_mapping_base_slot,       \* hex string, or <<>> before it is computed
    spc,                  \* "off" | "start" | "based"
    nested_slot           \* outcome of the last calculate_nested_mapping_slot call

slotVars == <<pool_state_base_slot, tick_bitmap_mapping_base_slot,
              ticks_mapping_base_slot, spc, nested_slot>>

VARIABLES
    \* ---- add_active_liquidity.py ----
    tick_snapshot_file,   \* tick_snapshot.json: block string -> (key -> value)
    tick_snapshot,        \* the dict loaded from the file, updated in place
    blocks_left,          \* the items of tick_snapshot the loop has not visited yet
    printed,              \* the lines printed by the loop: <<block, "skip" | "ok" | "error">>
    apc                   \* "off" | "start" | "loop" | "done" | "failed"

liqVars == <<tick_snapshot_file, tick_snapshot, blocks_left, printed, apc>>

vars == <<sweepVars, fetchVars, slotVars, liqVars>>

-----------------------------------------------------------------------------
(* Bounds of the model *)

\* digits of the decimal context (getcontext().prec is 78 in the source)
Prec == 3

\* fraction bits of the fixed-point sqrt price (Q96 = 1 << 96 in the source)
QBits == 4

\* largest number of tick keys in a snapshot
MaxTicks == 2

\* tick spacing of the pool (SPACING is 10 in the source, which makes the
\* bitmap 694 words long; at 3000 it is the 4 words -2..1)
SPACING == 3000

\* size of the semaphore (CONCURRENCY is 100 in the source)
CONCURRENCY == 2

\* largest number of bits set in the tick bitmap in storage
MaxSetBits == 2

\* bytes of a storage slot and of a mapping key (32 in the source)
SlotBytes == 2

\* largest number of blocks in tick_snapshot.json
MaxBlocks == 2

-----------------------------------------------------------------------------
(* decimal.Decimal at Prec digits *)

RECURSIVE Pow10(_)
Pow10(n) == IF n <= 0 THEN 1 ELSE 10 * Pow10(n - 1)

RECURSIVE Pow2(_)
Pow2(n) == IF n <= 0 THEN 1 ELSE 2 * Pow2(n - 1)

Abs(n) == IF n < 0 THEN -n ELSE n

Sign(n) == IF n < 0 THEN -1 ELSE IF n > 0 THEN 1 ELSE 0

RECURSIVE Digits(_)
Digits(n) == IF n < 10 THEN 1 ELSE 1 + Digits(n \div 10)

DecZero == [m |-> 0, e |-> 0]

\* The value n * 10^e (plus a nonzero residue below the last digit of n when
\* sticky) rounded half-even to Prec digits.
DecRoundSticky(n, e, sticky) ==
    LET a == Abs(n)
        d == Digits(a)
    IN  IF a = 0 THEN DecZero
        ELSE IF d <= Prec
        THEN [m |-> Sign(n) * a * Pow10(Prec - d), e |-> e - (Prec - d)]
        ELSE LET k    == d - Prec
                 q    == a \div Pow10(k)
                 r    == a % Pow10(k)
                 half == 5 * Pow10(k - 1)
                 up   == \/ r > half
                         \/ r = half /\ (sticky \/ q % 2 = 1)
                 q2   == IF up THEN q + 1 ELSE q
             IN  IF q2 = Pow10(Prec)
                 THEN [m |-> Sign(n) * Pow10(Prec - 1), e |-> e + k + 1]
                 ELSE [m |-> Sign(n) * q2, e |-> e + k]

DecRound(n, e) == DecRoundSticky(n, e, FALSE)

\* Decimal(int)
Dec(n) == DecRound(n, 0)

DecNeg(x) == [m |-> -x.m, e |-> x.e]

\* x + y
DecAdd(x, y) ==
    IF x.m = 0 THEN y
    ELSE IF y.m = 0 THEN x
    ELSE LET hi   == IF x.e >= y.e THEN x ELSE y
             lo   == IF x.e >= y.e THEN y ELSE x
             diff == hi.e - lo.e
         IN  IF diff > Prec + 1 THEN hi
             ELSE DecRound(hi.m * Pow10(diff) + lo.m, lo.e)

\* x - y
DecSub(x, y) == DecAdd(x, DecNeg(y))

\* x * y
DecMul(x, y) == DecRound(x.m * y.m, x.e + y.e)

\* x / y  (y # 0)
DecDiv(x, y) ==
    IF x.m = 0 THEN DecZero
    ELSE LET num == Abs(x.m) * Pow10(Prec + 1)
             q   == num \div Abs(y.m)
             r   == num % Abs(y.m)
         IN  DecRoundSticky(Sign(x.m) * Sign(y.m) * q, x.e - y.e - (Prec + 1), r # 0)

\* comparisons are exact in decimal: the sign of the rounded difference is the
\* sign of the exact difference
DecLt(x, y) == DecSub(x, y).m < 0
DecLe(x, y) == DecSub(x, y).m <= 0
DecGe(x, y) == DecLe(y, x)
DecGt(x, y) == DecLt(y, x)

DecMin(x, y) == IF DecLt(y, x) THEN y ELSE x
DecMax(x, y) == IF DecGt(y, x) THEN y ELSE x

\* x.to_integral_value(rounding=ROUND_FLOOR)
DecFloor(x) ==
    IF x.m = 0 \/ x.e >= 0 THEN x
    ELSE IF -x.e >= Prec THEN (IF x.m > 0 THEN DecZero ELSE Dec(-1))
    ELSE Dec(x.m \div Pow10(-x.e))

\* the value is a whole number
DecIsInt(x) == x.m = 0 \/ x.e >= 0 \/ (-x.e < Prec /\ x.m % Pow10(-x.e) = 0)

-----------------------------------------------------------------------------
(* Constants of pool_balance.py / pool_value.py *)

MIN_TICK == -887272
MAX_TICK == 887272

\* Q96 = Decimal(1 << 96), at QBits fraction bits
Q96 == Dec(Pow2(QBits))

-----------------------------------------------------------------------------
(* The inputs the model draws from *)

\* keys a snapshot dictionary may hold: tick strings (one of them written
\* with a sign, "+13863", which int() accepts) and the reserved "__L"
TickKeys == {"-887273", "-887272", "-13863", "0", "13863", "+13863", "887273"}

ReservedKey == "__L"

\* a fixed enumeration of the keys, used to build dictionary iteration orders
KeySeq == <<"__L", "887273", "0", "+13863", "-887272", "13863", "-13863", "-887273">>

NetValues == {-10, 0, 10, 20}

LValues == {0, 10}

\* current_sqrtPX96_int values: 8/16, 16/16, 24/16, 32/16 at QBits = 4
SqrtPrices == {8, 16, 24, 32}

\* int(t_str)
int_(t_str) ==
    CASE t_str = "-887273" -> -887273
      [] t_str = "-887272" -> -887272
      [] t_str = "-13863"  -> -13863
      [] t_str = "0"       -> 0
      [] t_str = "13863"   -> 13863
      [] t_str = "+13863"  -> 13863
      [] t_str = "887273"  -> 887273

\* str(tick)
str_(tick) ==
    CASE tick = -887273 -> "-887273"
      [] tick = -887272 -> "-887272"
      [] tick = -13863  -> "-13863"
      [] tick = 0       -> "0"
      [] tick = 13863   -> "13863"
      [] tick = 887272  -> "887272"
      [] tick = 887273  -> "887273"

\* t_str.startswith("__")
startswith__(t_str) == t_str = ReservedKey

Snapshots ==
    UNION { [K -> NetValues] : K \in {S \in SUBSET TickKeys : Cardinality(S) <= MaxTicks} }

\* the "liquidityGross" values that are modelled, one for all ticks of a snapshot
GrossValues == {0, 10}

\* what a call is given besides the tick -> liquidityNet mapping and the
\* price: <<"__L" is present, liquidityGross, slot0_liquidity_int>>
ArgChoices ==
    {a \in BOOLEAN \X GrossValues \X LValues :
        a \in {<<FALSE, 0, 0>>, <<TRUE, 0, 0>>, <<FALSE, 10, 0>>,
               <<FALSE, 0, 10>>, <<TRUE, 10, 10>>}}

\* the tick entries of a snapshot, without the reserved key
TickEntries(dict) == [k \in DOMAIN dict \ {ReservedKey} |-> dict[k]]

\* the snapshot with or without the reserved key
WithReserved(snap, hasL) ==
    IF hasL THEN [k \in DOMAIN snap \cup {ReservedKey} |->
                     IF k = ReservedKey THEN 10 ELSE snap[k]]
    ELSE snap

-----------------------------------------------------------------------------
(* Sequences *)

Range(s) == {s[n] : n \in DOMAIN s}

Reverse(s) == [n \in 1..Len(s) |-> s[Len(s) + 1 - n]]

RECURSIVE Insert(_, _)
Insert(x, s) ==
    IF s = <<>> THEN <<x>>
    ELSE IF x <= Head(s) THEN <<x>> \o s
    ELSE <<Head(s)>> \o Insert(x, Tail(s))

\* a list left in the order it was built in
unsorted(s) == s

\* sorted(list)
RECURSIVE sorted(_)
sorted(s) == IF s = <<>> THEN <<>> ELSE Insert(Head(s), sorted(Tail(s)))

\* list(set(list)): the distinct elements, first occurrences kept
RECURSIVE list_set(_)
list_set(s) ==
    IF s = <<>> THEN <<>>
    ELSE LET rest == list_set(Tail(s))
         IN  IF Head(s) \in Range(rest) THEN rest ELSE <<Head(s)>> \o rest

\* the iteration orders of a dictionary with key set K that the model tries
KeysInOrder(K) == SelectSeq(KeySeq, LAMBDA k : k \in K)

Rotate(s) == IF s = <<>> THEN s ELSE Tail(s) \o <<Head(s)>>

DictOrders(K) == {KeysInOrder(K), Reverse(KeysInOrder(K)), Rotate(KeysInOrder(K))}

-----------------------------------------------------------------------------
(* pool_balance.py / pool_value.py *)

\* the outcome of a call: the amounts it returned, or the error it raised
Outcome(kind, amounts) == [kind |-> kind, amounts |-> amounts]

\* no call has completed
NoResult == Outcome("none", <<DecZero, DecZero>>)

\* the outcome of a call that raised from get_sqrt_ratio_at_tick
ValueError == Outcome("ValueError", <<DecZero, DecZero>>)

\* MIN_TICK <= tick <= MAX_TICK
InBounds(tick) == MIN_TICK <= tick /\ tick <= MAX_TICK

\* Decimal("1.0001") ** (Decimal(tick) / Decimal(2)): the first six digits of
\* the value and its exponent; every value but the one at tick 0 has further
\* nonzero digits
SqrtRatioDigits(tick) ==
    CASE tick = -887272 -> <<542121, -25>>
      [] tick = -886872 -> <<553072, -25>>
      [] tick = -13863  -> <<500015, -6>>
      [] tick = -800    -> <<960791, -6>>
      [] tick = -400    -> <<980199, -6>>
      [] tick = 0       -> <<1, 0>>
      [] tick = 400     -> <<102020, -5>>
      [] tick = 800     -> <<104080, -5>>
      [] tick = 13863   -> <<199993, -5>>
      [] tick = 886872  -> <<180808, 14>>
      [] tick = 887272  -> <<184460, 14>>

\* the ticks SqrtRatioDigits tabulates
RatioTicks ==
    {-887272, -886872, -13863, -800, -400, 0, 400, 800, 13863, 886872, 887272}

\* Decimal("1.0001") ** (Decimal(-tick) / Decimal(2)): the exponent negated
get_sqrt_ratio_at_negated_tick(tick) ==
    DecRoundSticky(SqrtRatioDigits(-tick)[1], SqrtRatioDigits(-tick)[2], tick # 0)

\* get_sqrt_ratio_at_tick, for a tick that is in bounds
get_sqrt_ratio_at_tick(tick) ==
    DecRoundSticky(SqrtRatioDigits(tick)[1], SqrtRatioDigits(tick)[2], tick # 0)

\* the range formula with the operands of both differences exchanged
get_amounts_reversed(sqrt_price_current, sqrt_lower, sqrt_upper, liquidity) ==
    LET sp_low  == DecMin(sqrt_lower, sqrt_upper)
        sp_high == DecMax(sqrt_lower, sqrt_upper)
        one     == Dec(1)
    IN  IF DecLe(liquidity, DecZero) THEN <<DecZero, DecZero>>
        ELSE IF DecLt(sqrt_price_current, sp_low)
        THEN <<DecMul(liquidity, DecSub(DecDiv(one, sp_high), DecDiv(one, sp_low))), DecZero>>
        ELSE IF DecGe(sqrt_price_current, sp_high)
        THEN <<DecZero, DecMul(liquidity, DecSub(sp_low, sp_high))>>
        ELSE <<DecMul(liquidity, DecSub(DecDiv(one, sp_high), DecDiv(one, sqrt_price_current))),
               DecMul(liquidity, DecSub(sp_low, sqrt_price_current))>>

\* the range formula with the in-range case computed from the bounds alone
get_amounts_of_whole_range(sqrt_price_current, sqrt_lower, sqrt_upper, liquidity) ==
    LET sp_low  == DecMin(sqrt_lower, sqrt_upper)
        sp_high == DecMax(sqrt_lower, sqrt_upper)
        one     == Dec(1)
    IN  IF DecLe(liquidity, DecZero) THEN <<DecZero, DecZero>>
        ELSE IF DecLt(sqrt_price_current, sp_low)
        THEN <<DecMul(liquidity, DecSub(DecDiv(one, sp_low), DecDiv(one, sp_high))), DecZero>>
        ELSE IF DecGe(sqrt_price_current, sp_high)
        THEN <<DecZero, DecMul(liquidity, DecSub(sp_high, sp_low))>>
        ELSE <<DecMul(liquidity, DecSub(DecDiv(one, sp_low), DecDiv(one, sp_high))),
               DecMul(liquidity, DecSub(sp_high, sp_low))>>

\* the range formula with the tokens of the two out-of-range cases exchanged
get_amounts_tokens_exchanged(sqrt_price_current, sqrt_lower, sqrt_upper, liquidity) ==
    LET sp_low  == DecMin(sqrt_lower, sqrt_upper)
        sp_high == DecMax(sqrt_lower, sqrt_upper)
        one     == Dec(1)
    IN  IF DecLe(liquidity, DecZero) THEN <<DecZero, DecZero>>
        ELSE IF DecLt(sqrt_price_current, sp_low)
        THEN <<DecZero, DecMul(liquidity, DecSub(sp_high, sp_low))>>
        ELSE IF DecGe(sqrt_price_current, sp_high)
        THEN <<DecMul(liquidity, DecSub(DecDiv(one, sp_low), DecDiv(one, sp_high))), DecZero>>
        ELSE <<DecMul(liquidity, DecSub(DecDiv(one, sqrt_price_current), DecDiv(one, sp_high))),
               DecMul(liquidity, DecSub(sqrt_price_current, sp_low))>>

get_amounts_for_liquidity_in_range(sqrt_price_current, sqrt_lower, sqrt_upper, liquidity) ==
    LET sp_low  == DecMin(sqrt_lower, sqrt_upper)
        sp_high == DecMax(sqrt_lower, sqrt_upper)
        one     == Dec(1)
    IN  IF DecLe(liquidity, DecZero) THEN <<DecZero, DecZero>>
        ELSE IF DecLt(sqrt_price_current, sp_low)
        THEN <<DecMul(liquidity, DecSub(DecDiv(one, sp_low), DecDiv(one, sp_high))), DecZero>>
        ELSE IF DecGe(sqrt_price_current, sp_high)
        THEN <<DecZero, DecMul(liquidity, DecSub(sp_high, sp_low))>>
        ELSE <<DecMul(liquidity, DecSub(DecDiv(one, sqrt_price_current), DecDiv(one, sp_high))),
               DecMul(liquidity, DecSub(sqrt_price_current, sp_low))>>

\* current_sqrtP_decimal = Decimal(current_sqrtPX96_int) / Q96
current_sqrtP_decimal == DecDiv(Dec(current_sqrtPX96_int), Q96)

\* sorted([int(t_str) for t_str in keys if not t_str.startswith("__")])
initialized_ticks_int(keys) ==
    LET kept == SelectSeq(keys, LAMBDA t_str : ~startswith__(t_str))
    IN  sorted([n \in 1..Len(kept) |-> int_(kept[n])])

\* sorted(list(set([MIN_TICK, MAX_TICK] + initialized_ticks_int)))
segment_boundaries(keys) ==
    sorted(list_set(<<MIN_TICK, MAX_TICK>> \o initialized_ticks_int(keys)))

\* a sweep that evaluates every segment whose liquidity is not zero
segment_liquidity_nonzero(segment_liquidity) == segment_liquidity.m # 0

\* if segment_liquidity_decimal > 0
segment_has_liquidity(segment_liquidity) == DecGt(segment_liquidity, DecZero)

\* a sweep that adds the magnitude of liquidityNet
liquidity_after_abs(running, tick_lower_boundary) ==
    IF str_(tick_lower_boundary) \in DOMAIN tick_snapshot_dict
    THEN DecAdd(running, Dec(Abs(tick_snapshot_dict[str_(tick_lower_boundary)])))
    ELSE running

\* a sweep that starts from Slot0.liquidity at MIN_TICK instead of from 0
liquidity_after_seeded(running, tick_lower_boundary) ==
    LET base == IF tick_lower_boundary = MIN_TICK
                THEN DecAdd(running, Dec(slot0_liquidity_int))
                ELSE running
    IN  IF str_(tick_lower_boundary) \in DOMAIN tick_snapshot_dict
        THEN DecAdd(base, Dec(tick_snapshot_dict[str_(tick_lower_boundary)]))
        ELSE base

\* the running liquidity updated with the entry's "liquidityGross"
liquidity_after_gross(running, tick_lower_boundary) ==
    IF str_(tick_lower_boundary) \in DOMAIN liquidity_gross
    THEN DecAdd(running, Dec(liquidity_gross[str_(tick_lower_boundary)]))
    ELSE running

\* running_liquidity after "if str(tick_lower_boundary) in tick_snapshot_dict: ... +="
liquidity_after(running, tick_lower_boundary) ==
    IF str_(tick_lower_boundary) \in DOMAIN tick_snapshot_dict
    THEN DecAdd(running, Dec(tick_snapshot_dict[str_(tick_lower_boundary)]))
    ELSE running

\* the segment [lower, upper) holds the current sqrt price
segment_holds_price(tick_lower_boundary, tick_upper_boundary) ==
    /\ InBounds(tick_lower_boundary)
    /\ InBounds(tick_upper_boundary)
    /\ DecLe(get_sqrt_ratio_at_tick(tick_lower_boundary), current_sqrtP_decimal)
    /\ DecLt(current_sqrtP_decimal, get_sqrt_ratio_at_tick(tick_upper_boundary))

\* a sweep that lets Slot0.liquidity override the running liquidity in the
\* segment that holds the current price
segment_liquidity_from_slot0(running, tick_lower_boundary, tick_upper_boundary) ==
    IF segment_holds_price(tick_lower_boundary, tick_upper_boundary)
    THEN Dec(slot0_liquidity_int)
    ELSE running

\* segment_liquidity_decimal = running_liquidity_decimal
segment_liquidity_decimal(running, tick_lower_boundary, tick_upper_boundary) ==
    running

\* int(total.to_integral_value(rounding=ROUND_HALF_UP)) of both totals
returned_amounts_nearest(t0, t1) ==
    LET half == [m |-> 5 * Pow10(Prec - 1), e |-> -Prec]
    IN  Outcome("returned", <<DecFloor(DecAdd(t0, half)), DecFloor(DecAdd(t1, half))>>)

\* int(total.to_integral_value(rounding=ROUND_FLOOR)) of both totals
returned_amounts(t0, t1) == Outcome("returned", <<DecFloor(t0), DecFloor(t1)>>)

SweepInit ==
    /\ tick_snapshot_dict \in Snapshots
    /\ liquidity_gross = [k \in DOMAIN tick_snapshot_dict |-> 0]
    /\ args_changed = FALSE
    /\ current_sqrtPX96_int \in SqrtPrices
    /\ slot0_liquidity_int = 0
    /\ pc = "idle"
    /\ all_segment_boundaries = <<>>
    /\ i = 0
    /\ running_liquidity_decimal = DecZero
    /\ total_amount0 = DecZero
    /\ total_amount1 = DecZero
    /\ result = NoResult
    /\ prev_result = NoResult

\* a call of pool_balances_at_block: lines 133-152, up to the loop
Call ==
    /\ pc \in {"idle", "returned", "raised"}
    /\ prev_result = NoResult
    /\ \E a \in ArgChoices :
           /\ tick_snapshot_dict' = WithReserved(TickEntries(tick_snapshot_dict), a[1])
           /\ liquidity_gross' = [k \in DOMAIN liquidity_gross |-> a[2]]
           /\ slot0_liquidity_int' = a[3]
    /\ args_changed' =
           /\ result # NoResult
           /\ <<tick_snapshot_dict', liquidity_gross', slot0_liquidity_int'>>
                  # <<tick_snapshot_dict, liquidity_gross, slot0_liquidity_int>>
    /\ \E keys \in DictOrders(DOMAIN tick_snapshot_dict') :
           all_segment_boundaries' = segment_boundaries(keys)
    /\ i' = 0
    /\ running_liquidity_decimal' = DecZero
    /\ total_amount0' = DecZero
    /\ total_amount1' = DecZero
    /\ prev_result' = result
    /\ result' = NoResult
    /\ pc' = "sweep"
    /\ UNCHANGED current_sqrtPX96_int
    /\ UNCHANGED <<fetchVars, slotVars, liqVars>>

\* one iteration of the loop over the segments, lines 155-208
SweepSegment ==
    /\ pc = "sweep"
    /\ i < Len(all_segment_boundaries) - 1
    /\ LET tick_lower_boundary == all_segment_boundaries[i + 1]
           tick_upper_boundary == all_segment_boundaries[i + 2]
           liq == liquidity_after(running_liquidity_decimal, tick_lower_boundary)
           seg == segment_liquidity_decimal(liq, tick_lower_boundary, tick_upper_boundary)
       IN  IF tick_lower_boundary >= tick_upper_boundary
           THEN /\ i' = i + 1
                /\ UNCHANGED <<running_liquidity_decimal, total_amount0, total_amount1,
                               pc, result>>
           ELSE IF ~segment_has_liquidity(seg)
           THEN /\ i' = i + 1
                /\ running_liquidity_decimal' = liq
                /\ UNCHANGED <<total_amount0, total_amount1, pc, result>>
           ELSE IF ~InBounds(tick_lower_boundary) \/ ~InBounds(tick_upper_boundary)
           THEN /\ pc' = "raised"
                /\ result' = ValueError
                /\ running_liquidity_decimal' = liq
                /\ UNCHANGED <<i, total_amount0, total_amount1>>
           ELSE LET amounts == get_amounts_for_liquidity_in_range(
                                   current_sqrtP_decimal,
                                   get_sqrt_ratio_at_tick(tick_lower_boundary),
                                   get_sqrt_ratio_at_tick(tick_upper_boundary),
                                   seg)
                IN  /\ i' = i + 1
                    /\ running_liquidity_decimal' = liq
                    /\ total_amount0' = DecAdd(total_amount0, amounts[1])
                    /\ total_amount1' = DecAdd(total_amount1, amounts[2])
                    /\ UNCHANGED <<pc, result>>
    /\ UNCHANGED <<tick_snapshot_dict, liquidity_gross, args_changed,
                   current_sqrtPX96_int, slot0_liquidity_int,
                   all_segment_boundaries, prev_result>>
    /\ UNCHANGED <<fetchVars, slotVars, liqVars>>

\* the return statement, lines 210-211
Return ==
    /\ pc = "sweep"
    /\ i >= Len(all_segment_boundaries) - 1
    /\ result' = returned_amounts(total_amount0, total_amount1)
    /\ pc' = "returned"
    /\ UNCHANGED <<tick_snapshot_dict, liquidity_gross, args_changed,
                   current_sqrtPX96_int, slot0_liquidity_int,
                   all_segment_boundaries, i, running_liquidity_decimal,
                   total_amount0, total_amount1, prev_result>>
    /\ UNCHANGED <<fetchVars, slotVars, liqVars>>

SweepNext == Call \/ SweepSegment \/ Return

\* no call is made
SweepIdle ==
    /\ tick_snapshot_dict = <<>>
    /\ liquidity_gross = <<>>
    /\ args_changed = FALSE
    /\ current_sqrtPX96_int = 0
    /\ slot0_liquidity_int = 0
    /\ pc = "off"
    /\ all_segment_boundaries = <<>>
    /\ i = 0
    /\ running_liquidity_decimal = DecZero
    /\ total_amount0 = DecZero
    /\ total_amount1 = DecZero
    /\ result = NoResult
    /\ prev_result = NoResult

-----------------------------------------------------------------------------
(* tick_bitmap.py *)

\* bits of a bitmap word: for bit in range(256), word * 256 + bit
WordBits == 256

\* the lowest word with the quotient truncated toward zero
minW_truncated == -((887272 \div SPACING) \div WordBits)

\* minW = -887272 // SPACING // 256, maxW = 887272 // SPACING // 256
minW == ((-887272) \div SPACING) \div WordBits
maxW == (887272 \div SPACING) \div WordBits

\* range(minW, maxW + 1)
Words == minW..maxW

\* the bit positions the modelled storage may have set
BitChoices == {0, 40, 255}

\* the TickInfo slot 0 contents the modelled storage may hold, as
\* decode_tickinfo_slot0 returns them: <<liquidityNet, liquidityGross>>
TickInfos == {<<0, 0>>, <<-10, 10>>, <<0, 10>>}

NoFile == <<"no file">>

\* a check of the tick range that accepts every tick
tick_unchecked(tick) == TRUE

\* if -887272 <= tick <= 887272
tick_in_range(tick) == -887272 <= tick /\ tick <= 887272

\* tick = (word * 256 + bit) * SPACING
tick_of(word, bit) == (word * WordBits + bit) * SPACING

\* (bits >> bit) & 1
bit_is_set(bits, bit) == bit \in bits

\* the ticks appended for one word: for bit in range(256), in this order
ticks_of_word(word, bits) ==
    LET all  == [n \in 1..WordBits |-> n - 1]
        set  == SelectSeq(all, LAMBDA bit : bit_is_set(bits, bit))
        tks  == [n \in 1..Len(set) |-> tick_of(word, set[n])]
    IN  SelectSeq(tks, tick_in_range)

\* the list built by the loop over bitmap_word_values.items(), before the sort
RECURSIVE ticks_of_items(_)
ticks_of_items(items) ==
    IF items = <<>> THEN <<>>
    ELSE ticks_of_word(Head(items)[1], Head(items)[2]) \o ticks_of_items(Tail(items))

\* the entries left in the insertion order of the dict
kept_in_insertion_order(s) == s

RECURSIVE InsertByKey(_, _)
InsertByKey(x, s) ==
    IF s = <<>> THEN <<x>>
    ELSE IF x[1] <= Head(s)[1] THEN <<x>> \o s
    ELSE <<Head(s)>> \o InsertByKey(x, Tail(s))

\* list.sort(key=...) on entries whose first component is the key
RECURSIVE sort_by_key(_)
sort_by_key(s) == IF s = <<>> THEN <<>> ELSE InsertByKey(Head(s), sort_by_key(Tail(s)))

\* get_storage_at calls fetch_tick_info gathers while it holds the semaphore
ReadsPerTick == 3

\* asyncio.gather(*tasks, return_exceptions=True): a failed task does not
\* end the caller
gather_return_exceptions(at) == at

\* asyncio.gather(*tasks): the first exception of a task propagates to the
\* awaiting main, which asyncio.run ends
gather_on_exception(at) == "aborted"

\* await asyncio.gather(*tasks) returns when every task has finished
gather_returns(tasks) == \A k \in DOMAIN tasks : tasks[k] \in {"done", "failed"}

\* the tasks holding the semaphore
WordsInFlight == {w \in DOMAIN word_task : word_task[w] = "inflight"}
TicksInFlight == {t \in DOMAIN tick_task : tick_task[t] = "inflight"}

Min(S) == CHOOSE x \in S : \A y \in S : x <= y

\* the ticks whose bit is set in the bitmap in storage
ChainTicks(bitmap) == UNION {{tick_of(w, b) : b \in bitmap[w]} : w \in Words}

\* the ticks of the bits the modelled storage may have set
ModelTicks == {tick_of(w, b) : w \in Words, b \in BitChoices}

FetchInit ==
    /\ chain_bitmap \in {bm \in [Words -> SUBSET BitChoices] :
                            Cardinality({<<w, b>> \in Words \X BitChoices : b \in bm[w]})
                                <= MaxSetBits}
    /\ chain_ticks \in [ChainTicks(chain_bitmap) -> TickInfos]
    /\ fpc = "gather_words"
    /\ word_task = [w \in Words |-> "pending"]
    /\ bitmap_word_values = <<>>
    /\ bitmap_file = NoFile
    /\ initialized_ticks = <<>>
    /\ tick_task = <<>>
    /\ tick_reads = <<>>
    /\ tick_data = <<>>
    /\ snapshot_file = NoFile

\* fetch_bitmap_word(word) enters "async with semaphore" and issues its read;
\* the tasks reach the semaphore in the order they were created in
StartWord(w) ==
    /\ fpc = "gather_words"
    /\ word_task[w] = "pending"
    /\ w = Min({x \in Words : word_task[x] = "pending"})
    /\ Cardinality(WordsInFlight) < CONCURRENCY
    /\ word_task' = [word_task EXCEPT ![w] = "inflight"]
    /\ UNCHANGED <<chain_bitmap, chain_ticks, fpc, bitmap_word_values, bitmap_file,
                   initialized_ticks, tick_task, tick_reads, tick_data, snapshot_file>>
    /\ UNCHANGED <<sweepVars, slotVars, liqVars>>

\* get_storage_at returns: lines 90-92
WordRead(w) ==
    /\ fpc = "gather_words"
    /\ word_task[w] = "inflight"
    /\ word_task' = [word_task EXCEPT ![w] = "done"]
    /\ bitmap_word_values' =
           IF chain_bitmap[w] # {}
           THEN Append(bitmap_word_values, <<w, chain_bitmap[w]>>)
           ELSE bitmap_word_values
    /\ UNCHANGED <<chain_bitmap, chain_ticks, fpc, bitmap_file,
                   initialized_ticks, tick_task, tick_reads, tick_data, snapshot_file>>
    /\ UNCHANGED <<sweepVars, slotVars, liqVars>>

\* get_storage_at raises: gather re-raises in main, which ends
WordReadFails(w) ==
    /\ fpc = "gather_words"
    /\ word_task[w] = "inflight"
    /\ word_task' = [word_task EXCEPT ![w] = "failed"]
    /\ fpc' = gather_on_exception(fpc)
    /\ UNCHANGED <<chain_bitmap, chain_ticks, bitmap_word_values, bitmap_file,
                   initialized_ticks, tick_task, tick_reads, tick_data, snapshot_file>>
    /\ UNCHANGED <<sweepVars, slotVars, liqVars>>

\* lines 98-104: gather has returned; the bitmap list is sorted and saved
SaveBitmap ==
    /\ fpc = "gather_words"
    /\ gather_returns(word_task)
    /\ bitmap_file' = sort_by_key(bitmap_word_values)
    /\ fpc' = "decode"
    /\ UNCHANGED <<chain_bitmap, chain_ticks, word_task, bitmap_word_values,
                   initialized_ticks, tick_task, tick_reads, tick_data, snapshot_file>>
    /\ UNCHANGED <<sweepVars, slotVars, liqVars>>

\* lines 107-116 and the creation of the fetch_tick_info tasks, lines 145-146
FindInitializedTicks ==
    /\ fpc = "decode"
    /\ initialized_ticks' = sorted(ticks_of_items(bitmap_word_values))
    /\ tick_task' = [t \in Range(initialized_ticks') |-> "pending"]
    /\ tick_reads' = [t \in Range(initialized_ticks') |-> 0]
    /\ fpc' = "gather_ticks"
    /\ UNCHANGED <<chain_bitmap, chain_ticks, word_task, bitmap_word_values, bitmap_file,
                   tick_data, snapshot_file>>
    /\ UNCHANGED <<sweepVars, slotVars, liqVars>>

\* fetch_tick_info(tick) enters "async with semaphore" and issues its reads
StartTick(t) ==
    /\ fpc = "gather_ticks"
    /\ t \in DOMAIN tick_task
    /\ tick_task[t] = "pending"
    /\ t = Min({x \in DOMAIN tick_task : tick_task[x] = "pending"})
    /\ Cardinality(TicksInFlight) < CONCURRENCY
    /\ tick_task' = [tick_task EXCEPT ![t] = "inflight"]
    /\ tick_reads' = [tick_reads EXCEPT ![t] = ReadsPerTick]
    /\ UNCHANGED <<chain_bitmap, chain_ticks, fpc, word_task, bitmap_word_values,
                   bitmap_file, initialized_ticks, tick_data, snapshot_file>>
    /\ UNCHANGED <<sweepVars, slotVars, liqVars>>

\* one of the three get_storage_at calls of a tick returns while the inner
\* gather still waits for another
TickSlotRead(t) ==
    /\ fpc = "gather_ticks"
    /\ t \in DOMAIN tick_task
    /\ tick_task[t] = "inflight"
    /\ tick_reads[t] > 1
    /\ tick_reads' = [tick_reads EXCEPT ![t] = @ - 1]
    /\ UNCHANGED <<chain_bitmap, chain_ticks, fpc, word_task, bitmap_word_values,
                   bitmap_file, initialized_ticks, tick_task, tick_data, snapshot_file>>
    /\ UNCHANGED <<sweepVars, slotVars, liqVars>>

\* the last of the three reads of a tick returns: lines 139-142
TickRead(t) ==
    /\ fpc = "gather_ticks"
    /\ t \in DOMAIN tick_task
    /\ tick_task[t] = "inflight"
    /\ tick_reads[t] = 1
    /\ tick_reads' = [tick_reads EXCEPT ![t] = 0]
    /\ tick_task' = [tick_task EXCEPT ![t] = "done"]
    /\ tick_data' = Append(tick_data, <<t, chain_ticks[t][1], chain_ticks[t][2]>>)
    /\ UNCHANGED <<chain_bitmap, chain_ticks, fpc, word_task, bitmap_word_values,
                   bitmap_file, initialized_ticks, snapshot_file>>
    /\ UNCHANGED <<sweepVars, slotVars, liqVars>>

\* one of the reads of a tick raises: gather re-raises in main, which ends
TickReadFails(t) ==
    /\ fpc = "gather_ticks"
    /\ t \in DOMAIN tick_task
    /\ tick_task[t] = "inflight"
    /\ tick_task' = [tick_task EXCEPT ![t] = "failed"]
    /\ tick_reads' = [tick_reads EXCEPT ![t] = @ - 1]
    /\ fpc' = gather_on_exception(fpc)
    /\ UNCHANGED <<chain_bitmap, chain_ticks, word_task, bitmap_word_values,
                   bitmap_file, initialized_ticks, tick_data, snapshot_file>>
    /\ UNCHANGED <<sweepVars, slotVars, liqVars>>

\* a filter that keeps the entries whose liquidityNet is not zero
snapshot_entry_has_net(entry) == entry[2] # 0

\* the entries kept for the snapshot: if data[0] != 0 or data[1] != 0
snapshot_entry_kept(entry) == entry[2] # 0 \/ entry[3] # 0

\* lines 148-164: gather has returned; the snapshot is built, sorted and saved
SaveSnapshot ==
    /\ fpc = "gather_ticks"
    /\ gather_returns(tick_task)
    /\ snapshot_file' = sort_by_key(SelectSeq(tick_data, snapshot_entry_kept))
    /\ fpc' = "done"
    /\ UNCHANGED <<chain_bitmap, chain_ticks, word_task, bitmap_word_values,
                   bitmap_file, initialized_ticks, tick_task, tick_reads, tick_data>>
    /\ UNCHANGED <<sweepVars, slotVars, liqVars>>

FetchNext ==
    \/ \E w \in Words : StartWord(w) \/ WordRead(w) \/ WordReadFails(w)
    \/ SaveBitmap
    \/ FindInitializedTicks
    \/ \E t \in ModelTicks :
           StartTick(t) \/ TickSlotRead(t) \/ TickRead(t) \/ TickReadFails(t)
    \/ SaveSnapshot

\* main of tick_bitmap.py is not run
FetchIdle ==
    /\ chain_bitmap = <<>>
    /\ chain_ticks = <<>>
    /\ fpc = "off"
    /\ word_task = <<>>
    /\ bitmap_word_values = <<>>
    /\ bitmap_file = NoFile
    /\ initialized_ticks = <<>>
    /\ tick_task = <<>>
    /\ tick_reads = <<>>
    /\ tick_data = <<>>
    /\ snapshot_file = NoFile

-----------------------------------------------------------------------------
(* Slot addressing of tick_bitmap.py *)

HexChars == <<"0", "1", "2", "3", "4", "5", "6", "7",
              "8", "9", "a", "b", "c", "d", "e", "f">>

\* the value of a hexadecimal digit character
HexVal(c) == (CHOOSE d \in 1..16 : HexChars[d] = c) - 1

\* the hexadecimal digits of n >= 0, without leading zeros
RECURSIVE HexDigits(_)
HexDigits(n) ==
    IF n < 16 THEN <<HexChars[n + 1]>>
    ELSE Append(HexDigits(n \div 16), HexChars[(n % 16) + 1])

\* hex(n)
hex_(n) == <<"0", "x">> \o HexDigits(n)

\* the 0x-prefixed hexadecimal text of n on a fixed number of bytes
RECURSIVE HexFixed(_, _)
HexFixed(n, digits) ==
    IF digits = 0 THEN <<>>
    ELSE Append(HexFixed(n \div 16, digits - 1), HexChars[(n % 16) + 1])

\* a mapping base slot written on all its SlotBytes bytes
hex_fixed_width(n) == <<"0", "x">> \o HexFixed(n, 2 * SlotBytes)

\* int(text, 16) of a 0x-prefixed text
RECURSIVE HexNumber(_)
HexNumber(chars) ==
    IF chars = <<>> THEN 0
    ELSE 16 * HexNumber(SubSeq(chars, 1, Len(chars) - 1)) + HexVal(chars[Len(chars)])

int16_(text) == HexNumber(SubSeq(text, 3, Len(text)))

\* text[2:]
strip2(text) == SubSeq(text, 3, Len(text))

\* bytes.fromhex(chars): the bytes, or a ValueError for an odd number of digits
fromhex_fails(chars) == Len(chars) % 2 = 1
fromhex(chars) ==
    [n \in 1..(Len(chars) \div 2) |-> 16 * HexVal(chars[2 * n - 1]) + HexVal(chars[2 * n])]

\* key.to_bytes(32, 'big', signed=True), on SlotBytes bytes
RECURSIVE BigEndian(_, _)
BigEndian(n, len) ==
    IF len = 0 THEN <<>> ELSE Append(BigEndian(n \div 256, len - 1), n % 256)

to_bytes_signed(key) == BigEndian(key % Pow2(8 * SlotBytes), SlotBytes)

\* the number a byte string writes, big-endian
RECURSIVE BytesNumber(_)
BytesNumber(bytes) ==
    IF bytes = <<>> THEN 0
    ELSE 256 * BytesNumber(SubSeq(bytes, 1, Len(bytes) - 1)) + bytes[Len(bytes)]

\* a bytes32 value shorter than its type, padded with zero bytes on the right
RECURSIVE zpad_right(_)
zpad_right(bytes) ==
    IF Len(bytes) >= SlotBytes THEN bytes ELSE zpad_right(Append(bytes, 0))

TICK_BITMAP_OFFSET == 5
TICKS_OFFSET == 4

NoSlot == [kind |-> "none", key_bytes |-> <<>>, base_slot_bytes |-> <<>>, encoded |-> <<>>]

\* calculate_nested_mapping_slot(key, mapping_base_slot_hex) up to the keccak
\* call: the bytes of the key, the bytes of the base slot and the preimage
\* encode_packed(['bytes32', 'bytes32'], ...) builds.  encode_packed either
\* pads a short bytes32 value on the right or rejects it (pads).
calculate_nested_mapping_slot(key, mapping_base_slot_hex, pads) ==
    IF fromhex_fails(strip2(mapping_base_slot_hex))
    THEN [kind |-> "ValueError", key_bytes |-> to_bytes_signed(key),
          base_slot_bytes |-> <<>>, encoded |-> <<>>]
    ELSE LET key_bytes       == to_bytes_signed(key)
             base_slot_bytes == fromhex(strip2(mapping_base_slot_hex))
         IN  IF Len(base_slot_bytes) > SlotBytes \/ (Len(base_slot_bytes) < SlotBytes /\ ~pads)
             THEN [kind |-> "EncodingError", key_bytes |-> key_bytes,
                   base_slot_bytes |-> base_slot_bytes, encoded |-> <<>>]
             ELSE [kind |-> "slot", key_bytes |-> key_bytes,
                   base_slot_bytes |-> base_slot_bytes,
                   encoded |-> key_bytes \o zpad_right(base_slot_bytes)]

\* the values of the pool-state base slot that are modelled: small ones, ones
\* with a leading zero digit or byte, and ones that fill every byte
SlotTop == Pow2(8 * SlotBytes)
SlotValues ==
    {0, 11, 250, 251, SlotTop \div 256 - 6, SlotTop \div 256 - 5,
     SlotTop \div 16 - 5, SlotTop \div 16 - 4, SlotTop \div 16 + 3,
     SlotTop \div 2, SlotTop - 300, SlotTop - 6, SlotTop - 5}

\* the mapping keys that are modelled: word positions and ticks
SlotKeys == {-256, -2, -1, 0, 1, 255}

\* main, line 62: the base slot of the pool state, a 32-byte hash as hex text
SlotInit ==
    /\ pool_state_base_slot \in {hex_fixed_width(S) : S \in SlotValues}
    /\ tick_bitmap_mapping_base_slot = <<>>
    /\ ticks_mapping_base_slot = <<>>
    /\ spc = "start"
    /\ nested_slot = NoSlot

\* main, lines 65-71
BaseSlots ==
    /\ spc = "start"
    /\ tick_bitmap_mapping_base_slot' =
           hex_(int16_(pool_state_base_slot) + TICK_BITMAP_OFFSET)
    /\ ticks_mapping_base_slot' = hex_(int16_(pool_state_base_slot) + TICKS_OFFSET)
    /\ spc' = "based"
    /\ UNCHANGED <<pool_state_base_slot, nested_slot>>
    /\ UNCHANGED <<sweepVars, fetchVars, liqVars>>

\* fetch_bitmap_word, line 88
BitmapWordSlot(word) ==
    /\ spc = "based"
    /\ \E pads \in BOOLEAN :
           nested_slot' =
               calculate_nested_mapping_slot(word, tick_bitmap_mapping_base_slot, pads)
    /\ UNCHANGED <<pool_state_base_slot, tick_bitmap_mapping_base_slot,
                   ticks_mapping_base_slot, spc>>
    /\ UNCHANGED <<sweepVars, fetchVars, liqVars>>

\* fetch_tick_info, line 128
TickInfoSlot(tick) ==
    /\ spc = "based"
    /\ \E pads \in BOOLEAN :
           nested_slot' = calculate_nested_mapping_slot(tick, ticks_mapping_base_slot, pads)
    /\ UNCHANGED <<pool_state_base_slot, tick_bitmap_mapping_base_slot,
                   ticks_mapping_base_slot, spc>>
    /\ UNCHANGED <<sweepVars, fetchVars, liqVars>>

SlotNext ==
    \/ BaseSlots
    \/ \E word \in SlotKeys : BitmapWordSlot(word)
    \/ \E tick \in SlotKeys : TickInfoSlot(tick)

\* no slot is computed
SlotIdle ==
    /\ pool_state_base_slot = <<>>
    /\ tick_bitmap_mapping_base_slot = <<>>
    /\ ticks_mapping_base_slot = <<>>
    /\ spc = "off"
    /\ nested_slot = NoSlot

-----------------------------------------------------------------------------
(* add_active_liquidity.py *)

\* the block keys of the modelled files; int("latest") raises ValueError
BlockKeys == {"100", "101", "latest"}

\* int(block_str) raises
int_block_fails(block_str) == block_str = "latest"

\* the entries a block of the modelled files may hold: a tick entry, and a
\* "__L" entry written by an earlier run
BlockDatas ==
    UNION {[K -> {"7"}] : K \in SUBSET {"0", ReservedKey}}

\* the files that are modelled
SnapshotFiles ==
    UNION {[B -> BlockDatas] : B \in {S \in SUBSET BlockKeys : Cardinality(S) <= MaxBlocks}}

\* the active liquidity decode_slot0_liquidity may return, and its str()
ActiveLiquidities == {0, 8}
str_liquidity(active_liq) == IF active_liq = 0 THEN "0" ELSE "8"

\* the orders in which a dict may hold a set of keys
ItemOrders(keys) ==
    {order \in [1..Cardinality(keys) -> keys] :
        \A m, n \in 1..Cardinality(keys) : m # n => order[m] # order[n]}

\* a test that finds no "__L" in any block
never_has_active_liquidity(data) == FALSE

\* "__L" in data
has_active_liquidity(data) == ReservedKey \in DOMAIN data

\* data["__L"] = value
with_active_liquidity(data, value) ==
    [k \in DOMAIN data \cup {ReservedKey} |-> IF k = ReservedKey THEN value ELSE data[k]]

LiqInit ==
    /\ tick_snapshot_file \in SnapshotFiles
    /\ tick_snapshot = <<>>
    /\ blocks_left = <<>>
    /\ printed = <<>>
    /\ apc = "start"

\* lines 27-36: the file is loaded and its keys are passed through str()
LoadSnapshot ==
    /\ apc = "start"
    /\ tick_snapshot' = [k \in DOMAIN tick_snapshot_file |-> tick_snapshot_file[k]]
    /\ blocks_left' \in ItemOrders(DOMAIN tick_snapshot_file)
    /\ apc' = "loop"
    /\ UNCHANGED <<tick_snapshot_file, printed>>
    /\ UNCHANGED <<sweepVars, fetchVars, slotVars>>

\* lines 27-31 raise: the file cannot be opened or parsed, or does not hold a
\* dict, and the run ends before anything is written
LoadFails ==
    /\ apc = "start"
    /\ apc' = "failed"
    /\ UNCHANGED <<tick_snapshot_file, tick_snapshot, blocks_left, printed>>
    /\ UNCHANGED <<sweepVars, fetchVars, slotVars>>

\* lines 39-41: the block already has "__L"
SkipBlock ==
    /\ apc = "loop"
    /\ blocks_left # <<>>
    /\ has_active_liquidity(tick_snapshot[Head(blocks_left)])
    /\ printed' = Append(printed, <<Head(blocks_left), "skip">>)
    /\ blocks_left' = Tail(blocks_left)
    /\ UNCHANGED <<tick_snapshot_file, tick_snapshot, apc>>
    /\ UNCHANGED <<sweepVars, fetchVars, slotVars>>

\* lines 42-49: the storage read returns and "__L" is set
ReadLiquidity ==
    /\ apc = "loop"
    /\ blocks_left # <<>>
    /\ ~has_active_liquidity(tick_snapshot[Head(blocks_left)])
    /\ ~int_block_fails(Head(blocks_left))
    /\ \E active_liq \in ActiveLiquidities :
           tick_snapshot' =
               [tick_snapshot EXCEPT ![Head(blocks_left)] =
                   with_active_liquidity(@, str_liquidity(active_liq))]
    /\ printed' = Append(printed, <<Head(blocks_left), "ok">>)
    /\ blocks_left' = Tail(blocks_left)
    /\ UNCHANGED <<tick_snapshot_file, apc>>
    /\ UNCHANGED <<sweepVars, fetchVars, slotVars>>

\* lines 42-51: int(block_str) or the storage read raises; the exception is
\* caught and the loop goes on
ReadLiquidityFails ==
    /\ apc = "loop"
    /\ blocks_left # <<>>
    /\ ~has_active_liquidity(tick_snapshot[Head(blocks_left)])
    /\ printed' = Append(printed, <<Head(blocks_left), "error">>)
    /\ blocks_left' = Tail(blocks_left)
    /\ UNCHANGED <<tick_snapshot_file, tick_snapshot, apc>>
    /\ UNCHANGED <<sweepVars, fetchVars, slotVars>>

\* lines 54-55: the dict is written back to the file
SaveFile ==
    /\ apc = "loop"
    /\ blocks_left = <<>>
    /\ tick_snapshot_file' = tick_snapshot
    /\ apc' = "done"
    /\ UNCHANGED <<tick_snapshot, blocks_left, printed>>
    /\ UNCHANGED <<sweepVars, fetchVars, slotVars>>

LiqNext ==
    \/ LoadSnapshot
    \/ LoadFails
    \/ SkipBlock
    \/ ReadLiquidity
    \/ ReadLiquidityFails
    \/ SaveFile

\* add_active_liquidity is not run
LiqIdle ==
    /\ tick_snapshot_file = <<>>
    /\ tick_snapshot = <<>>
    /\ blocks_left = <<>>
    /\ printed = <<>>
    /\ apc = "off"

-----------------------------------------------------------------------------
(* Specifications *)

\* calls of pool_balances_at_block
Init == SweepInit /\ FetchIdle /\ SlotIdle /\ LiqIdle

Next == SweepNext

Spec == Init /\ [][Next]_vars

\* a run of tick_bitmap.py
FetchSpecInit == FetchInit /\ SweepIdle /\ SlotIdle /\ LiqIdle

FetchSpec == FetchSpecInit /\ [][FetchNext]_vars

\* the slot computations of a run of tick_bitmap.py, for any pool
SlotSpecInit == SlotInit /\ SweepIdle /\ FetchIdle /\ LiqIdle

SlotSpec == SlotSpecInit /\ [][SlotNext]_vars

\* a run of add_active_liquidity.py
LiqSpecInit == LiqInit /\ SweepIdle /\ FetchIdle /\ SlotIdle

LiqSpec == LiqSpecInit /\ [][LiqNext]_vars

-----------------------------------------------------------------------------
(* Properties of pool_balances_at_block *)

\* the tick keys of the snapshot
SnapshotTickKeys == DOMAIN tick_snapshot_dict \ {ReservedKey}

AllKeysInBounds == \A k \in SnapshotTickKeys : InBounds(int_(k))

\* every tick key is written the way str() writes its tick
AllKeysCanonical == \A k \in SnapshotTickKeys : str_(int_(k)) = k

\* the sweep is about to process a segment of positive width
AtSegment ==
    /\ pc = "sweep"
    /\ i < Len(all_segment_boundaries) - 1
    /\ all_segment_boundaries[i + 1] < all_segment_boundaries[i + 2]

LowerHere == all_segment_boundaries[i + 1]
UpperHere == all_segment_boundaries[i + 2]
LiquidityHere == liquidity_after(running_liquidity_decimal, LowerHere)

\* the running liquidity of the segment about to be processed is negative
NegativeHere == AtSegment /\ LiquidityHere.m < 0

\* the segment about to be processed holds the current price and its running
\* liquidity differs from the declared active liquidity
MismatchHere ==
    /\ AtSegment
    /\ segment_holds_price(LowerHere, UpperHere)
    /\ LiquidityHere # Dec(slot0_liquidity_int)

\* the running liquidity of the k-th segment of the boundary list
RECURSIVE LiquidityOfSegment(_)
LiquidityOfSegment(k) ==
    IF k = 0 THEN DecZero
    ELSE liquidity_after(LiquidityOfSegment(k - 1), all_segment_boundaries[k])

PositiveSegments ==
    {k \in 1..(Len(all_segment_boundaries) - 1) : LiquidityOfSegment(k).m > 0}

\* C1 as claimed: when the running liquidity of a segment is negative the
\* call fails instead of continuing the sweep.
C1_NegativeLiquidityFails == [][NegativeHere => pc' = "raised"]_vars

\* C1 amended: when the running liquidity of a segment is negative the call
\* raises nothing; it adds nothing to either total for that segment, keeps
\* the negative running liquidity and continues with the next segment.
C1_NegativeSegmentSkipped ==
    [][NegativeHere =>
          /\ pc' = "sweep"
          /\ i' = i + 1
          /\ running_liquidity_decimal' = LiquidityHere
          /\ total_amount0' = total_amount0
          /\ total_amount1' = total_amount1]_vars

\* a call has returned amounts although its last segment had negative
\* running liquidity
C1_Witness == pc = "returned" /\ running_liquidity_decimal.m < 0

\* C2 as claimed: when the running liquidity of the segment that holds the
\* current price differs from the declared active liquidity the call fails.
C2_MismatchFails == [][MismatchHere => pc' = "raised"]_vars

\* C2 amended: when the running liquidity of the segment that holds the
\* current price differs from the declared active liquidity the call raises
\* nothing; the segment is evaluated with the running liquidity summed from
\* liquidityNet and the sweep continues.
C2_MismatchIgnored ==
    [][MismatchHere =>
          LET amounts == get_amounts_for_liquidity_in_range(
                             current_sqrtP_decimal,
                             get_sqrt_ratio_at_tick(LowerHere),
                             get_sqrt_ratio_at_tick(UpperHere),
                             LiquidityHere)
          IN  /\ pc' = "sweep"
              /\ i' = i + 1
              /\ total_amount0' = DecAdd(total_amount0, amounts[1])
              /\ total_amount1' = DecAdd(total_amount1, amounts[2])]_vars

\* the segment just evaluated holds the current price, its liquidity differs
\* from the declared active liquidity, and amounts were added for it
C2_Witness ==
    /\ pc = "sweep"
    /\ i >= 1
    /\ segment_holds_price(all_segment_boundaries[i], all_segment_boundaries[i + 1])
    /\ running_liquidity_decimal # Dec(slot0_liquidity_int)
    /\ total_amount0.m > 0
    /\ total_amount1.m > 0

\* C3: a snapshot with a tick key outside [MIN_TICK, MAX_TICK] never makes
\* the call return amounts.
C3_OutOfBoundsKeyFails == pc = "returned" => AllKeysInBounds

\* C4: for a snapshot whose tick keys are all in bounds (the current sqrt
\* price is positive), both returned amounts are integers >= 0.
C4_AmountsNonNegative ==
    (pc = "returned" /\ AllKeysInBounds) =>
        /\ result.amounts[1].m >= 0 /\ DecIsInt(result.amounts[1])
        /\ result.amounts[2].m >= 0 /\ DecIsInt(result.amounts[2])

\* a call on an in-bounds snapshot with a negative liquidityNet returned two
\* positive amounts
C4_Witness ==
    /\ pc = "returned"
    /\ AllKeysInBounds
    /\ \E k \in SnapshotTickKeys : tick_snapshot_dict[k] < 0
    /\ result.amounts[1].m > 0
    /\ result.amounts[2].m > 0

\* the snapshot holds one position: +L at tick a, -L at tick b, a < b, L > 0,
\* both ticks in bounds and written canonically
SinglePosition(a, b) ==
    /\ SnapshotTickKeys = {a, b}
    /\ AllKeysCanonical
    /\ AllKeysInBounds
    /\ int_(a) < int_(b)
    /\ tick_snapshot_dict[a] > 0
    /\ tick_snapshot_dict[b] = -tick_snapshot_dict[a]

\* the single-range formula evaluated directly, floored
DirectAmounts(a, b) ==
    LET amounts == get_amounts_for_liquidity_in_range(
                       current_sqrtP_decimal,
                       get_sqrt_ratio_at_tick(int_(a)),
                       get_sqrt_ratio_at_tick(int_(b)),
                       Dec(tick_snapshot_dict[a]))
    IN  <<DecFloor(amounts[1]), DecFloor(amounts[2])>>

\* C5: for a snapshot holding one position (+L at tick a, -L at tick b) the
\* call returns the floor of the single-range formula evaluated with the
\* bounds of a and b, liquidity L and the same current price.
C5_SinglePositionMatchesFormula ==
    \A a, b \in TickKeys :
        (pc = "returned" /\ SinglePosition(a, b)) => result.amounts = DirectAmounts(a, b)

\* a call on a single position with the price inside it returned two
\* positive amounts
C5_Witness ==
    /\ pc = "returned"
    /\ \E a, b \in TickKeys : SinglePosition(a, b)
    /\ result.amounts[1].m > 0
    /\ result.amounts[2].m > 0

\* C6: amount0 is 0 when the current price is at or above the upper bound of
\* every segment of positive running liquidity, and amount1 is 0 when it is
\* at or below the lower bound of every such segment.
C6_OneSidedAmounts ==
    pc = "returned" =>
        /\ (\A k \in PositiveSegments :
                DecGe(current_sqrtP_decimal,
                      get_sqrt_ratio_at_tick(all_segment_boundaries[k + 1])))
            => result.amounts[1].m = 0
        /\ (\A k \in PositiveSegments :
                DecLe(current_sqrtP_decimal,
                      get_sqrt_ratio_at_tick(all_segment_boundaries[k])))
            => result.amounts[2].m = 0

\* a call returned amount0 = 0 and amount1 > 0 with the price at or above
\* every segment of positive running liquidity
C6_Witness ==
    /\ pc = "returned"
    /\ PositiveSegments # {}
    /\ \A k \in PositiveSegments :
           DecGe(current_sqrtP_decimal,
                 get_sqrt_ratio_at_tick(all_segment_boundaries[k + 1]))
    /\ result.amounts[1].m = 0
    /\ result.amounts[2].m > 0

\* C7: a snapshot without tick keys (empty, or only "__L") makes the call
\* return (0, 0), whatever the price and the slot0 liquidity.
C7_EmptySnapshotIsZero ==
    SnapshotTickKeys = {} =>
        /\ pc # "raised"
        /\ pc = "returned" => result.amounts = <<DecZero, DecZero>>

\* a call on a snapshot holding only "__L", with nonzero slot0 liquidity,
\* has returned
C7_Witness ==
    /\ pc = "returned"
    /\ DOMAIN tick_snapshot_dict = {ReservedKey}
    /\ slot0_liquidity_int # 0

\* C8: two completed calls on the same snapshot content and price have the
\* same outcome, whatever order the dictionary's keys are iterated in.
C8_Deterministic ==
    (result # NoResult /\ prev_result # NoResult) => result = prev_result

\* two calls on a snapshot of two or more tick keys have returned nonzero
\* amounts
C8_Witness ==
    /\ pc = "returned"
    /\ prev_result # NoResult
    /\ Cardinality(SnapshotTickKeys) >= 2
    /\ result.amounts[1].m > 0
    /\ result.amounts[2].m > 0

-----------------------------------------------------------------------------
(* Properties of tick_bitmap.py *)

\* the ticks of the entries of the saved snapshot
SavedTicks == {snapshot_file[n][1] : n \in 1..Len(snapshot_file)}

\* the in-range ticks whose bit is set in the block's tick bitmap
SetInRangeTicks ==
    {t \in ChainTicks(chain_bitmap) : -887272 <= t /\ t <= 887272}

\* C9 as claimed: the ticks saved in the snapshot are exactly the in-range
\* ticks whose bit is set in the block's tick bitmap.
C9_SnapshotIsSetTicks == fpc = "done" => SavedTicks = SetInRangeTicks

\* C9 amended: the ticks saved in the snapshot are exactly the in-range
\* ticks whose bit is set in the block's tick bitmap and whose TickInfo has a
\* nonzero liquidityNet or a nonzero liquidityGross.
C9_SnapshotIsNonZeroSetTicks ==
    fpc = "done" =>
        SavedTicks = {t \in SetInRangeTicks :
                         chain_ticks[t][1] # 0 \/ chain_ticks[t][2] # 0}

\* a snapshot was saved with an entry whose liquidityNet is 0, while a tick
\* with a set bit and an all-zero TickInfo was left out
C9_Witness ==
    /\ fpc = "done"
    /\ \E n \in 1..Len(snapshot_file) : snapshot_file[n][2] = 0
    /\ \E t \in SetInRangeTicks : chain_ticks[t] = <<0, 0>>

\* the (wordIndex, bitPosition) pairs set in the fetched words
FetchedBits ==
    UNION {{<<bitmap_word_values[n][1], b>> : b \in bitmap_word_values[n][2]} :
              n \in 1..Len(bitmap_word_values)}

\* C10: decoding the fetched words yields exactly the ticks
\* (wordIndex * 256 + bitPosition) * SPACING of the set bits that lie in
\* [-887272, 887272], as a strictly increasing sequence.
C10_DecodedTicks ==
    fpc \in {"gather_ticks", "done"} =>
        /\ Range(initialized_ticks) =
               {t \in {(wb[1] * 256 + wb[2]) * SPACING : wb \in FetchedBits} :
                   -887272 <= t /\ t <= 887272}
        /\ \A n \in 1..(Len(initialized_ticks) - 1) :
               initialized_ticks[n] < initialized_ticks[n + 1]

\* two ticks were decoded from two words fetched in descending word order
C10_Witness ==
    /\ fpc = "gather_ticks"
    /\ Len(initialized_ticks) = 2
    /\ Len(bitmap_word_values) = 2
    /\ bitmap_word_values[1][1] > bitmap_word_values[2][1]

\* some read of the run has failed
SomeReadFailed ==
    \/ \E w \in DOMAIN word_task : word_task[w] = "failed"
    \/ \E t \in DOMAIN tick_task : tick_task[t] = "failed"

\* C11: tick_snapshot.json is written only after every bitmap-word read and
\* every TickInfo read of the block has completed successfully; once any read
\* has failed, no tick snapshot, complete or partial, is written.
C11_SnapshotOnlyAfterAllReads ==
    /\ snapshot_file # NoFile =>
           /\ \A w \in Words : word_task[w] = "done"
           /\ DOMAIN tick_task = SetInRangeTicks
           /\ \A t \in DOMAIN tick_task : tick_task[t] = "done" /\ tick_reads[t] = 0
    /\ SomeReadFailed => snapshot_file = NoFile

\* a TickInfo read failed after the data of another tick had been stored, and
\* the run ended without a snapshot
C11_Witness ==
    /\ fpc = "aborted"
    /\ \E t \in DOMAIN tick_task : tick_task[t] = "failed"
    /\ tick_data # <<>>
    /\ snapshot_file = NoFile

\* the get_storage_at requests in flight over a set of ticks
RECURSIVE TickReadsInFlight(_)
TickReadsInFlight(ticks) ==
    IF ticks = {} THEN 0
    ELSE LET t == CHOOSE x \in ticks : TRUE
         IN  tick_reads[t] + TickReadsInFlight(ticks \ {t})

\* the get_storage_at requests in flight: one per bitmap-word task holding the
\* semaphore, and those of the tick tasks
ReadsInFlight == Cardinality(WordsInFlight) + TickReadsInFlight(DOMAIN tick_reads)

\* C12 as claimed: at every moment of the fetch pipeline the number of
\* storage-read requests in flight is at most CONCURRENCY.
C12_ReadsWithinCeiling == ReadsInFlight <= CONCURRENCY

\* what the semaphore does bound: the tasks holding it, hence at most
\* ReadsPerTick requests for each of them
TasksWithinCeiling ==
    /\ Cardinality(WordsInFlight) <= CONCURRENCY
    /\ Cardinality(TicksInFlight) <= CONCURRENCY
    /\ ReadsInFlight <= ReadsPerTick * CONCURRENCY

\* the word indices that hold at least one tick of [MIN_TICK, MAX_TICK]
WordsHoldingRangeTicks ==
    {w \in (minW - 2)..(maxW + 2) :
        \E bit \in 0..255 :
            MIN_TICK <= (w * 256 + bit) * SPACING /\ (w * 256 + bit) * SPACING <= MAX_TICK}

\* a read that was issued is not issued again, and a finished one stays so
ReadOnce(w) ==
    /\ word_task[w] # "pending" => word_task'[w] # "pending"
    /\ word_task[w] \in {"done", "failed"} => word_task'[w] = word_task[w]

\* C18: the bitmap words the pipeline queries are exactly the word indices
\* that hold at least one tick (wordIndex*256 + bit)*SPACING of
\* [MIN_TICK, MAX_TICK], and each of them is queried once.
C18_QueriedWordsAreRangeWords ==
    /\ [](fpc # "off" => DOMAIN word_task = WordsHoldingRangeTicks)
    /\ [][fpc # "off" => \A w \in DOMAIN word_task : ReadOnce(w)]_vars

\* every word has been read, and both the lowest and the highest word held a
\* set bit
C18_Witness ==
    /\ fpc = "decode"
    /\ \E n \in 1..Len(bitmap_word_values) : bitmap_word_values[n][1] = minW
    /\ \E n \in 1..Len(bitmap_word_values) : bitmap_word_values[n][1] = maxW

\* the entries of a list are in strictly ascending order of their keys
AscendingKeys(list) ==
    \A n \in 1..(Len(list) - 1) : list[n][1] < list[n + 1][1]

\* C20: for fixed storage contents the saved bitmap list and the saved tick
\* snapshot are the same under every interleaving and completion order of
\* the fetch tasks: each is the list, in ascending key order, of the entries
\* the storage determines.
C20_SavedFilesIndependentOfOrder ==
    /\ (fpc # "off" /\ bitmap_file # NoFile) =>
           /\ AscendingKeys(bitmap_file)
           /\ Range(bitmap_file) =
                  {<<w, chain_bitmap[w]>> : w \in {x \in Words : chain_bitmap[x] # {}}}
    /\ (fpc # "off" /\ snapshot_file # NoFile) =>
           /\ AscendingKeys(snapshot_file)
           /\ Range(snapshot_file) =
                  {<<t, chain_ticks[t][1], chain_ticks[t][2]>> :
                      t \in {x \in SetInRangeTicks : chain_ticks[x] # <<0, 0>>}}

\* both files were saved after the words and the ticks had completed in
\* descending order
C20_Witness ==
    /\ fpc = "done"
    /\ Len(bitmap_file) = 2
    /\ Len(snapshot_file) = 2
    /\ bitmap_word_values[1][1] > bitmap_word_values[2][1]
    /\ tick_data[1][1] > tick_data[2][1]

-----------------------------------------------------------------------------
(* Properties of the sweep's arithmetic *)

RECURSIVE NetSum(_)
NetSum(keys) ==
    IF keys = {} THEN 0
    ELSE LET k == CHOOSE x \in keys : TRUE
         IN  tick_snapshot_dict[k] + NetSum(keys \ {k})

\* the tick keys of the snapshot whose tick is at or below a boundary
KeysUpTo(boundary) == {k \in SnapshotTickKeys : int_(k) <= boundary}

\* the sweep has evaluated the segment that starts at all_segment_boundaries[i]
SegmentEvaluated == pc \in {"sweep", "returned"} /\ i >= 1

\* C14 as claimed: the liquidity the sweep uses for a segment [lower, upper)
\* equals the sum of liquidityNet over all initialized ticks t <= lower of the
\* snapshot, each added exactly once.
C14_SegmentLiquidityIsPrefixSum ==
    SegmentEvaluated =>
        running_liquidity_decimal = Dec(NetSum(KeysUpTo(all_segment_boundaries[i])))

\* the same, for snapshots whose every key is written the way str() writes it
PrefixSumOfCanonicalKeys ==
    (SegmentEvaluated /\ AllKeysCanonical) =>
        running_liquidity_decimal = Dec(NetSum(KeysUpTo(all_segment_boundaries[i])))

\* a is the whole number with a <= T < a + 1
IsFloorOf(a, T) ==
    IF T.m = 0 \/ T.e >= 0 THEN a = T
    ELSE IF -T.e >= Prec THEN a = (IF T.m > 0 THEN DecZero ELSE Dec(-1))
    ELSE /\ DecIsInt(a)
         /\ \E A \in -Pow10(Prec)..Pow10(Prec) :
                /\ a = Dec(A)
                /\ A * Pow10(-T.e) <= T.m
                /\ T.m < (A + 1) * Pow10(-T.e)

\* C15: each returned amount is the floor of the total accumulated over all
\* segments: the returned whole number a satisfies a <= T < a + 1 for the
\* accumulated total T, which is floored once, at the return.
C15_ReturnedIsFloorOfTotal ==
    pc = "returned" =>
        /\ IsFloorOf(result.amounts[1], total_amount0)
        /\ IsFloorOf(result.amounts[2], total_amount1)

\* a call returned an accumulated total of token0 whose fractional part is at
\* least one half, so that rounding to the nearest whole number would exceed it
C15_Witness ==
    /\ pc = "returned"
    /\ ~DecIsInt(total_amount0)
    /\ DecGt(total_amount0, Dec(1))
    /\ result.amounts[1] # returned_amounts_nearest(total_amount0, total_amount1).amounts[1]

\* the liquidities the range formula is evaluated on at a segment: the
\* liquidity the sweep uses there, next to a fixed positive one
RangeLiquidities == {LiquidityHere, Dec(10)}

BelowRange(cur, lo, hi) == DecLt(cur, lo)
AboveRange(cur, lo, hi) == DecGe(cur, hi)
InsideRange(cur, lo, hi) == DecGe(cur, lo) /\ DecLt(cur, hi)

\* exactly one of the three cases applies
OneCase(cur, lo, hi) ==
    /\ BelowRange(cur, lo, hi) \/ AboveRange(cur, lo, hi) \/ InsideRange(cur, lo, hi)
    /\ ~(BelowRange(cur, lo, hi) /\ AboveRange(cur, lo, hi))
    /\ ~(BelowRange(cur, lo, hi) /\ InsideRange(cur, lo, hi))
    /\ ~(AboveRange(cur, lo, hi) /\ InsideRange(cur, lo, hi))

\* C16: for liquidity > 0 and sqrtLow <= sqrtHigh the range formula returns
\* (L*(1/sqrtLow - 1/sqrtHigh), 0) when sqrtCurrent < sqrtLow,
\* (0, L*(sqrtHigh - sqrtLow)) when sqrtCurrent >= sqrtHigh, and
\* (L*(1/sqrtCurrent - 1/sqrtHigh), L*(sqrtCurrent - sqrtLow)) otherwise;
\* exactly one of the three cases applies.
C16_ThreeCases ==
    (AtSegment /\ InBounds(LowerHere) /\ InBounds(UpperHere)) =>
        \A L \in RangeLiquidities :
            LET cur == current_sqrtP_decimal
                lo  == get_sqrt_ratio_at_tick(LowerHere)
                hi  == get_sqrt_ratio_at_tick(UpperHere)
                got == get_amounts_for_liquidity_in_range(cur, lo, hi, L)
                one == Dec(1)
            IN  (DecGt(L, DecZero) /\ DecLe(lo, hi)) =>
                    /\ OneCase(cur, lo, hi)
                    /\ BelowRange(cur, lo, hi) =>
                           got = <<DecMul(L, DecSub(DecDiv(one, lo), DecDiv(one, hi))),
                                   DecZero>>
                    /\ AboveRange(cur, lo, hi) =>
                           got = <<DecZero, DecMul(L, DecSub(hi, lo))>>
                    /\ InsideRange(cur, lo, hi) =>
                           got = <<DecMul(L, DecSub(DecDiv(one, cur), DecDiv(one, hi))),
                                   DecMul(L, DecSub(cur, lo))>>

\* the sweep has evaluated a segment that lies below the current price and is
\* about to evaluate, with positive liquidity, the segment that holds it
C16_Witness ==
    /\ AtSegment
    /\ InBounds(LowerHere)
    /\ InBounds(UpperHere)
    /\ DecGt(LiquidityHere, DecZero)
    /\ InsideRange(current_sqrtP_decimal, get_sqrt_ratio_at_tick(LowerHere),
                   get_sqrt_ratio_at_tick(UpperHere))
    /\ DecGt(total_amount1, DecZero)

-----------------------------------------------------------------------------
(* Properties of the slot addressing *)

\* the base slot the last calculate_nested_mapping_slot call was given
BaseSlotUsed ==
    IF nested_slot.kind = "none" THEN <<>>
    ELSE IF \E pads \in BOOLEAN, k \in SlotKeys :
               nested_slot = calculate_nested_mapping_slot(k, ticks_mapping_base_slot, pads)
         THEN ticks_mapping_base_slot
         ELSE tick_bitmap_mapping_base_slot

\* C17 as claimed: for every pool-state base slot S, the slot S + offset of
\* the tickBitmap mapping and of the ticks mapping is encoded on all
\* SlotBytes bytes when it is concatenated with the key, so the hashed
\* preimage always has 2 * SlotBytes bytes.
C17_BaseSlotOnAllBytes ==
    nested_slot # NoSlot =>
        /\ nested_slot.kind = "slot"
        /\ Len(nested_slot.base_slot_bytes) = SlotBytes
        /\ Len(nested_slot.encoded) = 2 * SlotBytes

\* when S + offset has no leading zero digit the base slot is encoded on all
\* its bytes, which write S + offset
FullWidthSlotOnAllBytes ==
    (nested_slot # NoSlot /\ Len(BaseSlotUsed) = 2 + 2 * SlotBytes) =>
        /\ nested_slot.kind = "slot"
        /\ Len(nested_slot.base_slot_bytes) = SlotBytes
        /\ Len(nested_slot.encoded) = 2 * SlotBytes
        /\ BytesNumber(nested_slot.base_slot_bytes) = int16_(BaseSlotUsed)

-----------------------------------------------------------------------------
(* Properties of the sweep's inputs *)

\* C19: the returned amounts depend only on the tick -> liquidityNet mapping
\* and the current sqrt price: a call that differs from the call before it
\* only in liquidityGross values, in the reserved "__L" entry or in the slot0
\* liquidity argument returns the same amounts, and no key starting with
\* "__" is used as a segment boundary.
C19_DependsOnNetAndPriceOnly ==
    /\ (args_changed /\ result # NoResult /\ prev_result # NoResult) =>
           result = prev_result
    /\ pc \in {"sweep", "returned", "raised"} =>
           Range(all_segment_boundaries) =
               {MIN_TICK, MAX_TICK} \cup {int_(k) : k \in SnapshotTickKeys}

\* two calls that differ in "__L", liquidityGross or the slot0 argument have
\* returned nonzero amounts over a snapshot that holds the reserved key
C19_Witness ==
    /\ args_changed
    /\ pc = "returned"
    /\ prev_result.kind = "returned"
    /\ ReservedKey \in DOMAIN tick_snapshot_dict
    /\ DecGt(result.amounts[1], DecZero)
    /\ DecGt(result.amounts[2], DecZero)

-----------------------------------------------------------------------------
(* Properties of add_active_liquidity.py *)

\* the outcome printed for a block
PrintedFor(block) == {printed[n][2] : n \in {m \in 1..Len(printed) : printed[m][1] = block}}

\* what a run may change in the file: nothing but a "__L" entry added to a
\* block that had none and whose read succeeded
OnlyAddsActiveLiquidity(before, after) ==
    /\ DOMAIN after = DOMAIN before
    /\ \A b \in DOMAIN before :
           /\ \A k \in DOMAIN before[b] : k \in DOMAIN after[b] /\ after[b][k] = before[b][k]
           /\ DOMAIN after[b] \subseteq DOMAIN before[b] \cup {ReservedKey}
           /\ ReservedKey \in DOMAIN before[b] => PrintedFor(b) = {"skip"}
           /\ ReservedKey \notin DOMAIN before[b] =>
                  \/ PrintedFor(b) = {"ok"} /\ ReservedKey \in DOMAIN after[b]
                  \/ PrintedFor(b) = {"error"} /\ ReservedKey \notin DOMAIN after[b]

\* C21: add_active_liquidity only adds a "__L" entry to blocks that lack
\* one: whenever it changes the file, every block that had "__L" keeps its
\* value, every tick entry is unchanged, no block is added or removed, and a
\* block whose read failed is left without "__L" while the other blocks are
\* still processed.
C21_OnlyAddsActiveLiquidity ==
    [][tick_snapshot_file' # tick_snapshot_file =>
          OnlyAddsActiveLiquidity(tick_snapshot_file, tick_snapshot_file')]_vars

\* the file was saved after the read of the first block had failed and the
\* read of the next block had succeeded
C21_Witness ==
    /\ apc = "done"
    /\ Len(printed) = 2
    /\ printed[1][2] = "error"
    /\ printed[2][2] = "ok"
    /\ ReservedKey \notin DOMAIN tick_snapshot_file[printed[1][1]]
    /\ ReservedKey \in DOMAIN tick_snapshot_file[printed[2][1]]

=============================================================================
